---- MODULE Spec2Model ----
(***************************************************************************)
(* CoastalClear backend: the persistence store (users, locations,          *)
(* bookings, feedback, historical monthly flotsam) and the request         *)
(* handlers of backend/main.py and backend/api/routes/*.py.                *)
(*                                                                         *)
(* Every handler is one action; it leaves its request and its response in  *)
(* the variable resp.  Optional[T] values are sequences of length <= 1:    *)
(* None is <<>> and a present value x is <<x>>.  Floats are exact          *)
(* fractions [num, den] (weights are scaled integers).                     *)
(***************************************************************************)
EXTENDS Integers, Sequences, FiniteSets, TLC

VARIABLES
    users,            \* table users: sequence of rows, row i has id i
    bookings,         \* table bookings: function id -> row, over the stored ids
    next_booking_id,  \* the bookings id sequence of the store
    feedback,         \* table feedback: set of rows
    hist,             \* table historical_monthly_flotsam: set of rows
    resp,             \* the last request handled and its response
    registered,       \* history: <<email, password>> of every successful /register
    inc_pc,           \* per concurrent increment_attendance call: its position
    inc_local,        \* per concurrent call: the attendance value its session holds
    clock,            \* the wall clock (dt.datetime.now()), in ticks
    date_day_default  \* the default of the date_day parameters, bound at import

vars == <<users, bookings, next_booking_id, feedback, hist, resp, registered,
          inc_pc, inc_local, clock, date_day_default>>

-----------------------------------------------------------------------------
(* Optional values *)

None == <<>>

Some(x) == <<x>>

\* Python truthiness of an Optional[float]: None and 0.0 are both falsy.
Truthy(opt) == opt # None /\ opt[1] # 0

-----------------------------------------------------------------------------
(* Exact fractions standing for Python floats *)

Frac(n, d) == [num |-> n, den |-> d]

FracScale(f, w) == [num |-> f.num * w, den |-> f.den]

FracAdd(f, g) == [num |-> f.num * g.den + g.num * f.den, den |-> f.den * g.den]

\* Equality of two fractions with positive denominators.
FracEq(f, g) == f.num * g.den = g.num * f.den

-----------------------------------------------------------------------------
(* backend/exceptions.py *)

EMAIL_USED ==
    [status_code |-> 400,
     message |-> "This email is already registered and cannot be used with a 3rd party identity provider"]

INACTIVE_USER == [status_code |-> 400, message |-> "Inactive user"]

INVALID_CREDENTIALS ==
    [status_code |-> 401, message |-> "Could not validate credentials"]

BOOKING_NOT_FOUND == [status_code |-> 404, message |-> "Booking not found"]

BOOKING_MODIFY_UNAUTHORIZED ==
    [status_code |-> 403, message |-> "Cannot modify a booking you do not own"]

LOCATION_NOT_FOUND == [status_code |-> 404, message |-> "Location not found"]

\* A handler that returns a value other than a JSONResponse answers 200.
Ok(body) == [status_code |-> 200, body |-> body]

\* An exception that escapes a handler is answered 500 by the framework.
InternalServerError(what) == [status_code |-> 500, error |-> what]

-----------------------------------------------------------------------------
(* Store contents that no handler in scope changes *)

\* Rows of table locations (read-only: the location routes are commented out).
LocationIds == {1, 2}

\* The location ids requests name: the stored ones and one no row has.
LocationIdInputs == {1, 2, 3}

\* A lookup that takes every id for a stored one.
get_any_location(location_id) == Some(location_id)

\* db.query(Location).filter(Location.id == location_id).first()
get_location(location_id) ==
    IF location_id \in LocationIds THEN Some(location_id) ELSE None

Emails == {"ann@x.org", "bob@x.org"}

Passwords == {"pw1", "pw2"}

-----------------------------------------------------------------------------
(* Score engine: backend/api/routes/locations.py *)

month_days ==
    [m \in 1..12 |->
        CASE m = 1 -> 31 [] m = 2 -> 28 [] m = 3 -> 31 [] m = 4 -> 30
          [] m = 5 -> 31 [] m = 6 -> 30 [] m = 7 -> 31 [] m = 8 -> 31
          [] m = 9 -> 30 [] m = 10 -> 31 [] m = 11 -> 30 [] m = 12 -> 31]

\* Query dates: [month, day] of the Gregorian calendar; the year plays no part
\* in the score except that it lets February have a 29th.
QueryDates ==
    {dt \in [month : 1..12, day : 1..31] :
        dt.day <= month_days[dt.month] + (IF dt.month = 2 THEN 1 ELSE 0)}

\* The dates the model queries: the first, the 15th and the last day of every
\* month, and 29 February.
SampleDates ==
    {dt \in QueryDates : dt.day \in {1, 15} \/ dt.day >= month_days[dt.month]}

\* prev_mth_no = (12 + curr_mth_no - 1) % 12
prev_mth_no(curr_mth_no) == (12 + curr_mth_no - 1) % 12

\* db.query(HistoricalMonthlyFlotsam).filter(location_id == .., month == ..)
HistRows(h, location_id, month) ==
    {r \in h : r.location_id = location_id /\ r.month = month}

\* .first(): a row of the query, or None when it has none.
HistFirst(h, location_id, month) ==
    IF HistRows(h, location_id, month) = {} THEN None
    ELSE Some(CHOOSE r \in HistRows(h, location_id, month) : TRUE)

\* return -1
ScoreUnavailable == Frac(-1, 1)

\* get_cleanliness_score without the check of the preceding month's record.
get_cleanliness_score_no_check(location_id, h, query_date) ==
    LET curr_mth_no == query_date.month
        prev_mth_no_ == prev_mth_no(curr_mth_no)
        curr_mth_record == HistFirst(h, location_id, curr_mth_no)
        prev_mth_record == HistFirst(h, location_id, prev_mth_no_)
        day == query_date.day
        remaining_days == month_days[curr_mth_no] - day
    IN  IF curr_mth_record = None THEN ScoreUnavailable
        ELSE IF prev_mth_record = None
             THEN FracScale(Frac(day, month_days[curr_mth_no]), curr_mth_record[1].weight)
             ELSE FracAdd(
                 FracScale(Frac(remaining_days, month_days[prev_mth_no_]),
                           prev_mth_record[1].weight),
                 FracScale(Frac(day, month_days[curr_mth_no]),
                           curr_mth_record[1].weight))

get_cleanliness_score(location_id, h, query_date) ==
    LET curr_mth_no == query_date.month
        prev_mth_no_ == prev_mth_no(curr_mth_no)
        curr_mth_record == HistFirst(h, location_id, curr_mth_no)
        prev_mth_record == HistFirst(h, location_id, prev_mth_no_)
        day == query_date.day
        remaining_days == month_days[curr_mth_no] - day
    IN  IF curr_mth_record = None \/ prev_mth_record = None
        THEN ScoreUnavailable
        ELSE FracAdd(
                 FracScale(Frac(remaining_days, month_days[prev_mth_no_]),
                           prev_mth_record[1].weight),
                 FracScale(Frac(day, month_days[curr_mth_no]),
                           curr_mth_record[1].weight))

\* GET /api/locations/{location_id}?date_day=..
read_location_by_id(location_id, date_day) ==
    /\ resp' = [op |-> "read_location_by_id",
                req |-> [location_id |-> location_id, date_day |-> date_day],
                res |-> IF get_location(location_id) = None
                        THEN InternalServerError("TypeError")
                        ELSE Ok([id |-> location_id,
                                 cleanliness_score |->
                                     get_cleanliness_score(location_id, hist, date_day)])]
    /\ UNCHANGED <<users, bookings, next_booking_id, feedback, hist, registered,
                   inc_pc, inc_local,
                   clock, date_day_default>>

\* GET /api/locations?date_day=..
read_locations(date_day) ==
    /\ resp' = [op |-> "read_locations",
                req |-> [date_day |-> date_day],
                res |-> Ok([loc \in LocationIds |->
                               [id |-> loc,
                                cleanliness_score |->
                                    get_cleanliness_score(loc, hist, date_day)]])]
    /\ UNCHANGED <<users, bookings, next_booking_id, feedback, hist, registered,
                   inc_pc, inc_local,
                   clock, date_day_default>>

-----------------------------------------------------------------------------
(* The store before any request, and the specification of the score reads *)

NumWorkers == 3

Workers == 1..NumWorkers

NoResp == [op |-> "none", req |-> <<>>, res |-> Ok(<<>>)]

\* Aggregate weight (a scaled integer) of the sample for (location, month).
SampleWeight(location_id, month) == 7 * month + 3 * location_id

\* At most MaxMissing consecutive months (cyclically) lack a sample.
MaxMissing == 2

MissingMonths ==
    {{((a + i - 1) % 12) + 1 : i \in 0..(k - 1)} : a \in 1..12, k \in 0..MaxMissing}

\* The tables the ingestion may have left: location 1 lacks the samples of a
\* run of months, location 2 has all twelve; one row per (location, month).
HistTables ==
    {{[location_id |-> loc, month |-> m, weight |-> SampleWeight(loc, m)] :
          loc \in LocationIds, m \in 1..12} \
      {[location_id |-> 1, month |-> m, weight |-> SampleWeight(1, m)] : m \in miss} :
      miss \in MissingMonths}

InitScore ==
    /\ users = <<>>
    /\ bookings = <<>>
    /\ next_booking_id = 1
    /\ feedback = {}
    /\ hist \in HistTables
    /\ resp = NoResp
    /\ registered = {}
    /\ inc_pc = [w \in Workers |-> "idle"]
    /\ inc_local = [w \in Workers |-> None]
    /\ clock = 0
    /\ date_day_default = 0

NextScore ==
    \/ \E location_id \in LocationIdInputs, date_day \in SampleDates :
           read_location_by_id(location_id, date_day)
    \/ \E date_day \in SampleDates : read_locations(date_day)

SpecScore == InitScore /\ [][NextScore]_vars

-----------------------------------------------------------------------------
(* Identity: backend/auth.py *)

\* PWD_CONTEXT.hash: a digest that is not the password and determines it.
PwdHash(password) == <<"$2b$", password>>

\* PWD_CONTEXT.verify: a missing hash verifies nothing.
verify_password(plain_password, hashed_password) ==
    hashed_password # None /\ hashed_password[1] = PwdHash(plain_password)

UserIdsWithEmail(us, email) == {i \in DOMAIN us : us[i].email = email}

\* db.query(User).filter(User.email == email).first()
get_user(us, email) ==
    IF UserIdsWithEmail(us, email) = {} THEN None
    ELSE Some(us[CHOOSE i \in UserIdsWithEmail(us, email) :
                     \A j \in UserIdsWithEmail(us, email) : i <= j])

\* models.User(email, hashed_pwd) with the column defaults, as stored.
LocalUser(id, email, password) ==
    [id |-> id, email |-> email, hashed_pwd |-> Some(PwdHash(password)),
     external_provider |-> FALSE, is_active |-> TRUE]

\* models.User(email, external_provider=True) with the column defaults.
ExternalUser(id, email) ==
    [id |-> id, email |-> email, hashed_pwd |-> None,
     external_provider |-> TRUE, is_active |-> TRUE]

\* The users table after create_user.
create_user(us, email, password) ==
    Append(us, LocalUser(Len(us) + 1, email, password))

\* The users table after create_user_external_provider.
create_user_external_provider(us, email) ==
    Append(us, ExternalUser(Len(us) + 1, email))

\* A password check that compares the stored hash with the plain password.
authenticate_user_unhashed(email, password, us) ==
    LET user == get_user(us, email)
    IN  IF user = None \/ user[1].hashed_pwd # Some(password) THEN None ELSE user

authenticate_user(email, password, us) ==
    LET user == get_user(us, email)
    IN  IF user = None \/ ~verify_password(password, user[1].hashed_pwd)
        THEN None
        ELSE user

\* jwt.decode of a bearer token: the email it was issued for, or None for a
\* token that does not verify.
Tokens(us) == {Some(us[i].email) : i \in DOMAIN us} \cup {None}

-----------------------------------------------------------------------------
(* Bookings: backend/api/routes/bookings.py *)

\* The date, time and volunteer fields of BookingCreate and BookingUpdate.
Schedules ==
    {[date |-> 1, start_time |-> "09:00", end_time |-> "11:00",
      est_volunteers |-> "5-10", num_volunteers |-> 5],
     [date |-> 2, start_time |-> "14:00", end_time |-> "16:00",
      est_volunteers |-> "10-20", num_volunteers |-> 12]}

\* A booking row stored without its owner.
NewBookingUnowned(id, sched, location_id, user_id) ==
    [id |-> id, date |-> sched.date, start_time |-> sched.start_time,
     end_time |-> sched.end_time, est_volunteers |-> sched.est_volunteers,
     num_volunteers |-> sched.num_volunteers, status |-> "scheduled",
     collected_weight |-> None, attendance |-> 0, external |-> FALSE,
     user_id |-> None, location_id |-> location_id]

\* models.Booking(**booking_new.dict(), user_id=user.id, external=False) with
\* the column defaults, as stored under the next id.
NewBooking(id, sched, location_id, user_id) ==
    [id |-> id, date |-> sched.date, start_time |-> sched.start_time,
     end_time |-> sched.end_time, est_volunteers |-> sched.est_volunteers,
     num_volunteers |-> sched.num_volunteers, status |-> "scheduled",
     collected_weight |-> None, attendance |-> 0, external |-> FALSE,
     user_id |-> Some(user_id), location_id |-> location_id]

\* db.query(Booking).filter(Booking.id == booking_id).first()
get_booking(bs, booking_id) ==
    IF booking_id \in DOMAIN bs THEN Some(bs[booking_id]) ELSE None

\* Two registered local users.
TwoUsers ==
    <<LocalUser(1, "ann@x.org", "pw1"), LocalUser(2, "bob@x.org", "pw2")>>

-----------------------------------------------------------------------------
(* increment_attendance under concurrent requests: each request runs in its  *)
(* own session; the read, the += 1 on the loaded object and the commit (an   *)
(* UPDATE that sets the value the session holds) are separate steps.         *)

BookingIdInputs == {1, 2}

\* booking = db.query(Booking).filter(Booking.id == booking_id).first()
inc_read(w, booking_id) ==
    /\ inc_pc[w] = "idle"
    /\ IF get_booking(bookings, booking_id) = None
       THEN /\ resp' = [op |-> "increment_attendance",
                        req |-> [booking_id |-> booking_id],
                        res |-> BOOKING_NOT_FOUND]
            /\ inc_pc' = [inc_pc EXCEPT ![w] = "done"]
            /\ UNCHANGED inc_local
       ELSE /\ inc_local' = [inc_local EXCEPT ![w] =
                   Some([booking_id |-> booking_id,
                         attendance |-> bookings[booking_id].attendance])]
            /\ inc_pc' = [inc_pc EXCEPT ![w] = "loaded"]
            /\ UNCHANGED resp
    /\ UNCHANGED <<users, bookings, next_booking_id, feedback, hist, registered,
                   clock, date_day_default>>

\* booking.attendance += 1
inc_add(w) ==
    /\ inc_pc[w] = "loaded"
    /\ inc_local' = [inc_local EXCEPT ![w] =
           Some([inc_local[w][1] EXCEPT !.attendance = @ + 1])]
    /\ inc_pc' = [inc_pc EXCEPT ![w] = "dirty"]
    /\ UNCHANGED <<users, bookings, next_booking_id, feedback, hist, resp, registered,
                   clock, date_day_default>>

\* db.commit(); db.refresh(booking); return booking
inc_commit(w) ==
    /\ inc_pc[w] = "dirty"
    /\ bookings' = [bookings EXCEPT ![inc_local[w][1].booking_id].attendance =
                       inc_local[w][1].attendance]
    /\ resp' = [op |-> "increment_attendance",
                req |-> [booking_id |-> inc_local[w][1].booking_id],
                res |-> Ok(bookings'[inc_local[w][1].booking_id])]
    /\ inc_pc' = [inc_pc EXCEPT ![w] = "done"]
    /\ UNCHANGED <<users, next_booking_id, feedback, hist, registered, inc_local,
                   clock, date_day_default>>

\* Two users; user 1 has created booking 1, whose attendance is 0.
InitAttendance ==
    /\ users = TwoUsers
    /\ bookings = (1 :> NewBooking(1, CHOOSE s \in Schedules : s.date = 1, 1, 1))
    /\ next_booking_id = 2
    /\ feedback = {}
    /\ hist = {}
    /\ resp = NoResp
    /\ registered = {}
    /\ inc_pc = [w \in Workers |-> "idle"]
    /\ inc_local = [w \in Workers |-> None]
    /\ clock = 0
    /\ date_day_default = 0

NextAttendance ==
    \E w \in Workers :
        \/ \E booking_id \in BookingIdInputs : inc_read(w, booking_id)
        \/ inc_add(w)
        \/ inc_commit(w)

SpecAttendance == InitAttendance /\ [][NextAttendance]_vars

\* The calls on booking 1 that found it.
CallsOnBooking1 ==
    {w \in Workers : inc_local[w] # None /\ inc_local[w][1].booking_id = 1}

\* C1: once all N concurrent increment-attendance calls on an existing booking
\* whose attendance started at 0 have completed, its attendance is exactly N.
C1_NoLostIncrement ==
    (\A w \in Workers : inc_pc[w] = "done")
        => bookings[1].attendance = Cardinality(CallsOnBooking1)

-----------------------------------------------------------------------------
(* The booking handlers, one request at a time *)

\* A booking loaded by data import: external, without an owner.
ExternalBooking(id, sched, location_id) ==
    [NewBooking(id, sched, location_id, 0) EXCEPT !.external = TRUE, !.user_id = None]

\* Bookings the model lets the handlers create.
MaxBookings == 1

\* The booking ids requests name: stored ones and one that never is.
BookingIds == 1..(MaxBookings + 2)

\* The location ids create requests name: a stored one and one no row has.
CreateLocationInputs == {1, 3}

\* BookingUpdate bodies: date, times, volunteer counts and status.
UpdateForms ==
    {[sched |-> s, status |-> IF s.date = 1 THEN "pending" ELSE "completed"] :
        s \in Schedules}

\* BookingUpdate.collected_weight: omitted or null, 0.0, a positive weight.
WeightInputs == {None, Some(0), Some(5)}

\* An ownership test that lets anyone modify a booking without an owner.
OwnsOrUnowned(booking, user) ==
    booking.user_id = None \/ booking.user_id = Some(user.id)

\* not (booking.user_id != user.id)
Owns(booking, user) == booking.user_id = Some(user.id)

\* A relationship that never finds a feedback row.
NoFeedbackOf(booking_id) == {}

\* Feedback rows of a booking (relationship Booking.feedback).
FeedbackOf(booking_id) == {f \in feedback : f.booking_id = booking_id}

\* POST /api/bookings
create_booking(token, sched, location_id) ==
    /\ next_booking_id <= MaxBookings + 1
    /\ LET req == [token |-> token, sched |-> sched, location_id |-> location_id]
           user == get_user(users, token[1])
       IN  IF token = None
           THEN /\ resp' = [op |-> "create_booking", req |-> req,
                            res |-> INVALID_CREDENTIALS]
                /\ UNCHANGED <<bookings, next_booking_id>>
           ELSE IF get_location(location_id) = None
           THEN /\ resp' = [op |-> "create_booking", req |-> req,
                            res |-> LOCATION_NOT_FOUND]
                /\ UNCHANGED <<bookings, next_booking_id>>
           ELSE /\ bookings' = bookings @@
                       (next_booking_id :>
                           NewBooking(next_booking_id, sched, location_id, user[1].id))
                /\ next_booking_id' = next_booking_id + 1
                /\ resp' = [op |-> "create_booking", req |-> req,
                            res |-> Ok(bookings'[next_booking_id])]
    /\ UNCHANGED <<users, feedback, hist, registered, inc_pc, inc_local,
                   clock, date_day_default>>

\* PUT /api/bookings/{booking_id}
update_booking(token, booking_id, form, collected_weight) ==
    /\ LET sched == form.sched
           status == form.status
           req == [token |-> token, booking_id |-> booking_id, sched |-> sched,
                   status |-> status, collected_weight |-> collected_weight]
           user == get_user(users, token[1])
           db_booking == get_booking(bookings, booking_id)
       IN  IF token = None
           THEN /\ resp' = [op |-> "update_booking", req |-> req,
                            res |-> INVALID_CREDENTIALS]
                /\ UNCHANGED bookings
           ELSE IF db_booking = None
           THEN /\ resp' = [op |-> "update_booking", req |-> req,
                            res |-> BOOKING_NOT_FOUND]
                /\ UNCHANGED bookings
           ELSE IF ~Owns(db_booking[1], user[1])
           THEN /\ resp' = [op |-> "update_booking", req |-> req,
                            res |-> BOOKING_MODIFY_UNAUTHORIZED]
                /\ UNCHANGED bookings
           ELSE /\ bookings' = [bookings EXCEPT ![booking_id] =
                       [@ EXCEPT !.date = sched.date,
                                 !.start_time = sched.start_time,
                                 !.end_time = sched.end_time,
                                 !.est_volunteers = sched.est_volunteers,
                                 !.num_volunteers = sched.num_volunteers,
                                 !.status = status,
                                 !.collected_weight =
                                     IF Truthy(collected_weight)
                                     THEN collected_weight ELSE @]]
                /\ resp' = [op |-> "update_booking", req |-> req,
                            res |-> Ok(bookings'[booking_id])]
    /\ UNCHANGED <<users, next_booking_id, feedback, hist, registered, inc_pc, inc_local,
                   clock, date_day_default>>

\* DELETE /api/bookings/{booking_id}
db_delete_booking(token, booking_id) ==
    /\ LET req == [token |-> token, booking_id |-> booking_id]
           user == get_user(users, token[1])
           booking == get_booking(bookings, booking_id)
       IN  IF token = None
           THEN /\ resp' = [op |-> "db_delete_booking", req |-> req,
                            res |-> INVALID_CREDENTIALS]
                /\ UNCHANGED bookings
           ELSE IF booking = None
           THEN /\ resp' = [op |-> "db_delete_booking", req |-> req,
                            res |-> BOOKING_NOT_FOUND]
                /\ UNCHANGED bookings
           ELSE IF ~Owns(booking[1], user[1])
           THEN /\ resp' = [op |-> "db_delete_booking", req |-> req,
                            res |-> BOOKING_MODIFY_UNAUTHORIZED]
                /\ UNCHANGED bookings
           ELSE IF FeedbackOf(booking_id) # {}
           THEN \* the flush sets feedback.booking_id, which is NOT NULL, to NULL
                /\ resp' = [op |-> "db_delete_booking", req |-> req,
                            res |-> InternalServerError("IntegrityError")]
                /\ UNCHANGED bookings
           ELSE /\ bookings' = [i \in DOMAIN bookings \ {booking_id} |-> bookings[i]]
                /\ resp' = [op |-> "db_delete_booking", req |-> req,
                            res |-> [status_code |-> 200,
                                     message |-> "Booking deleted successfully"]]
    /\ UNCHANGED <<users, next_booking_id, feedback, hist, registered, inc_pc, inc_local,
                   clock, date_day_default>>

\* Two registered users and one imported external booking.
Init ==
    /\ users = TwoUsers
    /\ bookings = (1 :> ExternalBooking(1, CHOOSE s \in Schedules : s.date = 1, 1))
    /\ next_booking_id = 2
    /\ feedback = {}
    /\ hist = {}
    /\ resp = NoResp
    /\ registered = {}
    /\ inc_pc = [w \in Workers |-> "idle"]
    /\ inc_local = [w \in Workers |-> None]
    /\ clock = 0
    /\ date_day_default = 0

Next ==
    \/ \E token \in Tokens(users), sched \in Schedules,
          location_id \in CreateLocationInputs :
           create_booking(token, sched, location_id)
    \/ \E token \in Tokens(users), booking_id \in BookingIds,
          form \in UpdateForms, collected_weight \in WeightInputs :
           update_booking(token, booking_id, form, collected_weight)
    \/ \E token \in Tokens(users), booking_id \in BookingIds :
           db_delete_booking(token, booking_id)

Spec == Init /\ [][Next]_vars

-----------------------------------------------------------------------------
(* Feedback listing: backend/api/routes/feedback.py.  A date is a day number, *)
(* a datetime a number of ticks, TicksPerDay of them to the day.             *)

TicksPerDay == 2

\* dt.timedelta(days=30)
WindowBackDays == 30

\* dt.timedelta(days=1)
WindowForwardDays == 1

\* A date compared with a DateTime column: its midnight.
ToDatetime(date) == date * TicksPerDay

\* The query with the day after date_day left out of the window.
feedback_query_exclusive(rows, location_id, date_day) ==
    {f \in rows :
        /\ f.location_id = location_id
        /\ f.datetime < ToDatetime(date_day + WindowForwardDays)
        /\ f.datetime >= ToDatetime(date_day - WindowBackDays)}

\* db.query(Feedback).filter(location_id == .., datetime <= .., datetime >= ..).all()
feedback_query(rows, location_id, date_day) ==
    {f \in rows :
        /\ f.location_id = location_id
        /\ f.datetime <= ToDatetime(date_day + WindowForwardDays)
        /\ f.datetime >= ToDatetime(date_day - WindowBackDays)}

\* GET /api/feedback?location_id=..&date_day=..
read_feedback(location_id, date_day) ==
    /\ resp' = [op |-> "read_feedback",
                req |-> [location_id |-> location_id, date_day |-> date_day],
                res |-> Ok(feedback_query(feedback, location_id, date_day))]
    /\ UNCHANGED <<users, bookings, next_booking_id, feedback, hist, registered,
                   inc_pc, inc_local,
                   clock, date_day_default>>

\* The days the listing is asked for, and the datetimes feedback may carry:
\* from before the earliest window to after the latest.
FeedbackQueryDays == {WindowBackDays, WindowBackDays + 1}

FeedbackTimes == 0..ToDatetime(WindowBackDays + WindowForwardDays + 2)

\* Feedback rows the model stores before the listing is read.
MaxRows == 1

\* Two bookings of user 1, one at each location.
BookingAtEachLocation ==
    [id \in LocationIds |->
        NewBooking(id, CHOOSE sched \in Schedules : sched.date = 1, id, 1)]

\* A feedback row filed under the first location, whatever the booking's is.
NewFeedbackFirstLocation(id, title, now, booking) ==
    [id |-> id, datetime |-> now, title |-> title,
     location_id |-> CHOOSE loc \in LocationIds : \A l \in LocationIds : loc <= l,
     booking_id |-> booking.id]

\* models.Feedback(**feedback.dict(), datetime=now, booking_id=booking_id,
\*                 location_id=booking.location_id), as stored under id.
NewFeedback(id, title, now, booking) ==
    [id |-> id, datetime |-> now, title |-> title,
     location_id |-> booking.location_id, booking_id |-> booking.id]

\* The feedback table a run of n create_feedback calls leaves: call i was for
\* booking of[i] at time times[i].
FeedbackTable(n, times, of) ==
    {NewFeedback(i, "report", times[i], BookingAtEachLocation[of[i]]) : i \in 1..n}

\* Two bookings and up to MaxRows feedback rows: ids in submission order, so
\* datetimes do not decrease with the id.
InitFeedback ==
    /\ users = TwoUsers
    /\ bookings = BookingAtEachLocation
    /\ next_booking_id = Cardinality(LocationIds) + 1
    /\ \E n \in 0..MaxRows :
          \E times \in [1..n -> FeedbackTimes],
             of \in [1..n -> DOMAIN BookingAtEachLocation] :
              /\ \A i \in 1..n, j \in 1..n : i <= j => times[i] <= times[j]
              /\ feedback = FeedbackTable(n, times, of)
    /\ hist = {}
    /\ resp = NoResp
    /\ registered = {}
    /\ inc_pc = [w \in Workers |-> "idle"]
    /\ inc_local = [w \in Workers |-> None]
    /\ clock = 0
    /\ date_day_default = 0

NextFeedback ==
    \E location_id \in LocationIdInputs, date_day \in FeedbackQueryDays :
        read_feedback(location_id, date_day)

SpecFeedback == InitFeedback /\ [][NextFeedback]_vars

\* C8 as claimed: the listing for location L and day D is exactly the rows of
\* L with D - 30 days <= datetime < D + 1 day; in particular a row stamped
\* exactly at D + 1 day is not returned.
C8_WindowHalfOpen ==
    resp.op = "read_feedback" =>
        resp.res.body =
            {f \in feedback :
                /\ f.location_id = resp.req.location_id
                /\ ToDatetime(resp.req.date_day - 30) <= f.datetime
                /\ f.datetime < ToDatetime(resp.req.date_day + 1)}

\* C8 as amended: the listing for location L and day D is exactly the rows of
\* L with D - 30 days <= datetime <= D + 1 day: rows stamped exactly at
\* D - 30 days and exactly at D + 1 day are both returned, and no row of
\* another location is.
C8_WindowClosed ==
    resp.op = "read_feedback" =>
        /\ resp.res.status_code = 200
        /\ resp.res.body =
               {f \in feedback :
                   /\ f.location_id = resp.req.location_id
                   /\ ToDatetime(resp.req.date_day - 30) <= f.datetime
                   /\ f.datetime <= ToDatetime(resp.req.date_day + 1)}

\* A listing that returned a row stamped exactly at D + 1 day.
C8_Witness ==
    /\ resp.op = "read_feedback"
    /\ \E f \in resp.res.body : f.datetime = ToDatetime(resp.req.date_day + 1)

\* A listing that returned a row stamped exactly at D - 30 days, later than
\* the earliest datetime.
C8_WitnessLowerEdge ==
    /\ resp.op = "read_feedback"
    /\ \E f \in resp.res.body :
          f.datetime = ToDatetime(resp.req.date_day - 30) /\ f.datetime > 0

-----------------------------------------------------------------------------
(* Registration and login: backend/main.py *)

\* Users the model lets the handlers store.
MaxUsers == 3

\* auth.create_access_token(data={"sub": email}) wrapped in schemas.Token
Token(email) == [access_token |-> [sub |-> email], token_type |-> "bearer"]

\* POST /login
login_for_access_token(username, password) ==
    /\ LET req == [username |-> username, password |-> password]
           user == authenticate_user(username, password, users)
       IN  resp' = [op |-> "login_for_access_token", req |-> req,
                    res |-> IF user = None THEN INVALID_CREDENTIALS
                            ELSE Ok(Token(user[1].email))]
    /\ UNCHANGED <<users, bookings, next_booking_id, feedback, hist, registered,
                   inc_pc, inc_local,
                   clock, date_day_default>>

\* POST /register
register_user(email, password) ==
    /\ get_user(users, email) = None => Len(users) < MaxUsers
    /\ LET req == [email |-> email, password |-> password]
       IN  IF get_user(users, email) # None
           THEN /\ resp' = [op |-> "register_user", req |-> req, res |-> EMAIL_USED]
                /\ UNCHANGED <<users, registered>>
           ELSE /\ users' = create_user(users, email, password)
                /\ LET stored_user == authenticate_user(email, password, users')
                   IN  IF stored_user = None
                       THEN /\ resp' = [op |-> "register_user", req |-> req,
                                        res |-> INVALID_CREDENTIALS]
                            /\ UNCHANGED registered
                       ELSE /\ resp' = [op |-> "register_user", req |-> req,
                                        res |-> Ok(Token(stored_user[1].email))]
                            /\ registered' = registered \cup {<<email, password>>}
    /\ UNCHANGED <<bookings, next_booking_id, feedback, hist, inc_pc, inc_local,
                   clock, date_day_default>>

\* A test that takes no stored account for a local one.
NeverLocalAccount(stored_user) == FALSE

\* stored_user and not stored_user.external_provider
IsLocalAccount(stored_user) ==
    stored_user # None /\ ~stored_user[1].external_provider

\* The body shared by login_with_google_token and oauth_redirect once the
\* provider has answered: user_info is the email it yields, or None when its
\* answer carries none (the KeyError is caught and reported).
third_party_login(op, user_info) ==
    /\ (user_info # None /\ get_user(users, user_info[1]) = None)
           => Len(users) < MaxUsers
    /\ LET req == [email |-> user_info]
           stored_user == get_user(users, user_info[1])
       IN  IF user_info = None
           THEN /\ resp' = [op |-> op, req |-> req, res |-> Ok([error |-> "'email'"])]
                /\ UNCHANGED users
           ELSE IF IsLocalAccount(stored_user)
           THEN /\ resp' = [op |-> op, req |-> req, res |-> EMAIL_USED]
                /\ UNCHANGED users
           ELSE IF stored_user # None
           THEN /\ resp' = [op |-> op, req |-> req,
                            res |-> Ok(Token(stored_user[1].email))]
                /\ UNCHANGED users
           ELSE /\ users' = create_user_external_provider(users, user_info[1])
                /\ resp' = [op |-> op, req |-> req,
                            res |-> Ok(Token(users'[Len(users')].email))]
    /\ UNCHANGED <<bookings, next_booking_id, feedback, hist, registered,
                   inc_pc, inc_local,
                   clock, date_day_default>>

\* POST /login-google
login_with_google_token(user_info) ==
    third_party_login("login_with_google_token", user_info)

\* GET /oauth-redirect
oauth_redirect(user_info) == third_party_login("oauth_redirect", user_info)

\* What the identity provider yields: an email, or an answer without one.
UserInfos == {Some(e) : e \in Emails} \cup {None}

InitAuth ==
    /\ users = <<>>
    /\ bookings = <<>>
    /\ next_booking_id = 1
    /\ feedback = {}
    /\ hist = {}
    /\ resp = NoResp
    /\ registered = {}
    /\ inc_pc = [w \in Workers |-> "idle"]
    /\ inc_local = [w \in Workers |-> None]
    /\ clock = 0
    /\ date_day_default = 0

NextAuth ==
    \/ \E email \in Emails, password \in Passwords : register_user(email, password)
    \/ \E username \in Emails, password \in Passwords :
           login_for_access_token(username, password)
    \/ \E user_info \in UserInfos : login_with_google_token(user_info)
    \/ \E user_info \in UserInfos : oauth_redirect(user_info)

SpecAuth == InitAuth /\ [][NextAuth]_vars

-----------------------------------------------------------------------------
(* Score engine: properties *)

\* The month preceding month M, December preceding January: ((M - 2) mod 12) + 1,
\* written with a non-negative dividend.
PrecedingMonth(M) == ((M + 10) % 12) + 1

HasRecord(location_id, month) == HistRows(hist, location_id, month) # {}

WeightOf(location_id, month) ==
    (CHOOSE r \in HistRows(hist, location_id, month) : TRUE).weight

\* The scores of the last response: [location_id, date, score] for each
\* location it reports.
ScoresReturned ==
    IF resp.op = "read_location_by_id" /\ resp.res.status_code = 200
    THEN {[location_id |-> resp.req.location_id, date |-> resp.req.date_day,
           score |-> resp.res.body.cleanliness_score]}
    ELSE IF resp.op = "read_locations" /\ resp.res.status_code = 200
    THEN {[location_id |-> loc, date |-> resp.req.date_day,
           score |-> resp.res.body[loc].cleanliness_score] : loc \in LocationIds}
    ELSE {}

\* ((daysInM - d) / daysInP) * weight(P) + (d / daysInM) * weight(M)
BlendedScore(location_id, date, P) ==
    FracAdd(FracScale(Frac(month_days[date.month] - date.day, month_days[P]),
                      WeightOf(location_id, P)),
            FracScale(Frac(date.day, month_days[date.month]),
                      WeightOf(location_id, date.month)))

\* C3: for every query date in January the preceding month used is December:
\* with records for months 1 and 12 the score is the blend of those two and is
\* not the sentinel -1; for every month M the preceding month used is
\* ((M - 2) mod 12) + 1.
C3_JanuaryUsesDecember ==
    \A t \in ScoresReturned :
        /\ (/\ HasRecord(t.location_id, t.date.month)
            /\ HasRecord(t.location_id, PrecedingMonth(t.date.month)))
               => ~FracEq(t.score, ScoreUnavailable)
        /\ (t.date.month = 1 /\ HasRecord(t.location_id, 1) /\ HasRecord(t.location_id, 12))
               => FracEq(t.score, BlendedScore(t.location_id, t.date, 12))

\* C4: a score read returns the sentinel -1 whenever the record of the query
\* date's month or the record of the preceding month is absent for the
\* location; it returns it as a value (the read answers 200) and the read
\* changes no stored data.
C4_MissingRecordGivesSentinel ==
    [][resp'.op \in {"read_location_by_id", "read_locations"} =>
          /\ UNCHANGED <<users, bookings, next_booking_id, feedback, hist>>
          /\ \A t \in ScoresReturned' :
                (\/ ~HasRecord(t.location_id, t.date.month)
                 \/ ~HasRecord(t.location_id, PrecedingMonth(t.date.month)))
                    => t.score = ScoreUnavailable]_vars

\* A read answered 200 for a location that has the record of the query month
\* and lacks the one of the preceding month, and the score is the sentinel.
C4_Witness ==
    \E t \in ScoresReturned :
        /\ HasRecord(t.location_id, t.date.month)
        /\ ~HasRecord(t.location_id, PrecedingMonth(t.date.month))
        /\ t.date.month # 1
        /\ t.score = ScoreUnavailable

\* C5: whenever the records of the query month M and of the preceding month P
\* both exist, the score equals
\* ((daysInM - d) / daysInP) * weight(P) + (d / daysInM) * weight(M).
C5_ScoreIsBlend ==
    \A t \in ScoresReturned :
        (/\ HasRecord(t.location_id, t.date.month)
         /\ HasRecord(t.location_id, PrecedingMonth(t.date.month)))
            => FracEq(t.score,
                      BlendedScore(t.location_id, t.date, PrecedingMonth(t.date.month)))

\* C5 for the months February to December, where the code's preceding month
\* is the calendar's.
C5_ScoreIsBlendAfterJanuary ==
    \A t \in ScoresReturned :
        (/\ t.date.month # 1
         /\ HasRecord(t.location_id, t.date.month)
         /\ HasRecord(t.location_id, PrecedingMonth(t.date.month)))
            => FracEq(t.score,
                      BlendedScore(t.location_id, t.date, PrecedingMonth(t.date.month)))

-----------------------------------------------------------------------------
(* Booking handlers: properties *)

\* The user a request's token resolves to.
Caller(r) == get_user(users, r.req.token[1])[1]

\* The last request was made with a valid token, names a stored booking and
\* the caller is not its owner.
ByNonOwner(r) ==
    /\ r.req.token # None
    /\ r.req.booking_id \in DOMAIN bookings
    /\ bookings[r.req.booking_id].user_id # Some(Caller(r).id)

\* C2: an update or a delete of an existing booking by an authenticated
\* identity that is not its owner (also when the booking has no owner) fails
\* with Forbidden, and the booking still exists with every field unchanged.
C2_NonOwnerForbidden ==
    [][(resp'.op \in {"update_booking", "db_delete_booking"} /\ ByNonOwner(resp'))
          => /\ resp'.res = BOOKING_MODIFY_UNAUTHORIZED
             /\ resp'.req.booking_id \in DOMAIN bookings'
             /\ bookings'[resp'.req.booking_id] = bookings[resp'.req.booking_id]]_vars

\* An update of the ownerless external booking 1 was answered Forbidden.
C2_Witness ==
    /\ resp.op = "update_booking"
    /\ resp.req.token # None
    /\ resp.req.booking_id \in DOMAIN bookings
    /\ bookings[resp.req.booking_id].user_id = None
    /\ resp.res = BOOKING_MODIFY_UNAUTHORIZED

\* A delete of a booking owned by another user was answered Forbidden.
C2_WitnessDelete ==
    /\ resp.op = "db_delete_booking"
    /\ resp.req.token # None
    /\ resp.req.booking_id \in DOMAIN bookings
    /\ bookings[resp.req.booking_id].user_id \notin {None, Some(Caller(resp).id)}
    /\ resp.res = BOOKING_MODIFY_UNAUTHORIZED

\* C6: on a successful update by the owner the stored collected weight is
\* unchanged when the request's collected_weight is omitted or null and is the
\* supplied value for every non-null value, 0 included; date, start time, end
\* time, both volunteer counts and status are always overwritten.
C6_WeightOverwrittenIffSupplied ==
    [][(resp'.op = "update_booking" /\ resp'.res.status_code = 200)
          => LET r == resp'.req
                 old == bookings[r.booking_id]
                 new == bookings'[r.booking_id]
             IN  /\ new.collected_weight =
                        (IF r.collected_weight = None
                         THEN old.collected_weight ELSE r.collected_weight)
                 /\ new.date = r.sched.date
                 /\ new.start_time = r.sched.start_time
                 /\ new.end_time = r.sched.end_time
                 /\ new.est_volunteers = r.sched.est_volunteers
                 /\ new.num_volunteers = r.sched.num_volunteers
                 /\ new.status = r.status]_vars

\* C6 with the weight 0 treated as the code treats it: like an omitted one.
C6_WeightOverwrittenIffTruthy ==
    [][(resp'.op = "update_booking" /\ resp'.res.status_code = 200)
          => LET r == resp'.req
                 old == bookings[r.booking_id]
                 new == bookings'[r.booking_id]
             IN  /\ new.collected_weight =
                        (IF r.collected_weight \in {None, Some(0)}
                         THEN old.collected_weight ELSE r.collected_weight)
                 /\ new.date = r.sched.date
                 /\ new.start_time = r.sched.start_time
                 /\ new.end_time = r.sched.end_time
                 /\ new.est_volunteers = r.sched.est_volunteers
                 /\ new.num_volunteers = r.sched.num_volunteers
                 /\ new.status = r.status]_vars

\* C7: a create-booking request by an authenticated identity that names a
\* location id no location has fails with LocationNotFound, and the stored
\* bookings and every other stored record are the same after it.
C7_CreateUnknownLocation ==
    [][(/\ resp'.op = "create_booking"
        /\ resp'.req.token # None
        /\ resp'.req.location_id \notin LocationIds)
          => /\ resp'.res = LOCATION_NOT_FOUND
             /\ UNCHANGED <<users, bookings, next_booking_id, feedback, hist>>]_vars

\* A create request of an authenticated user for a location no row has was
\* answered LocationNotFound.
C7_Witness ==
    /\ resp.op = "create_booking"
    /\ resp.req.token # None
    /\ resp.req.location_id \notin LocationIds
    /\ resp.res = LOCATION_NOT_FOUND

-----------------------------------------------------------------------------
(* Registration and login: properties *)

UsersWithEmail(us, email) == {i \in DOMAIN us : us[i].email = email}

\* Every row of us is a row of us2, unchanged.
Extends(us2, us) ==
    Len(us2) >= Len(us) /\ \A i \in DOMAIN us : us2[i] = us[i]

\* A password login with (email, password) would be answered with a token
\* for email.
LoginSucceeds(us, email, password) ==
    /\ authenticate_user(email, password, us) # None
    /\ authenticate_user(email, password, us)[1].email = email

\* C9: registering with an email no stored user has succeeds and creates
\* exactly one user with that email, and every later password login with the
\* same email and password succeeds; registering with an email a local
\* account owns fails with EmailAlreadyUsed, creates no user and changes none.
C9_RegisterThenLogin ==
    [][/\ resp'.op = "register_user" =>
            LET email == resp'.req.email
                password == resp'.req.password
            IN  /\ get_user(users, email) = None =>
                      /\ resp'.res = Ok(Token(email))
                      /\ Len(users') = Len(users) + 1
                      /\ Extends(users', users)
                      /\ Cardinality(UsersWithEmail(users', email)) = 1
                      /\ LoginSucceeds(users', email, password)
                /\ IsLocalAccount(get_user(users, email)) =>
                      /\ resp'.res = EMAIL_USED
                      /\ users' = users
       /\ \A ep \in registered : LoginSucceeds(users', ep[1], ep[2])
       /\ (resp'.op = "login_for_access_token"
              /\ <<resp'.req.username, resp'.req.password>> \in registered)
             => resp'.res = Ok(Token(resp'.req.username))]_vars

\* A password login answered with a token, with the credentials of an earlier
\* registration, after another account was stored too.
C9_Witness ==
    /\ resp.op = "login_for_access_token"
    /\ <<resp.req.username, resp.req.password>> \in registered
    /\ resp.res.status_code = 200
    /\ Len(users) > 1

\* A registration refused because a local account owns the email.
C9_WitnessRefused ==
    /\ resp.op = "register_user"
    /\ resp.res = EMAIL_USED
    /\ IsLocalAccount(get_user(users, resp.req.email))

UniqueEmails(us) ==
    \A i \in DOMAIN us, j \in DOMAIN us : us[i].email = us[j].email => i = j

\* C10: a third-party login that yields email E is refused with
\* EmailAlreadyUsed when a local account owns E; otherwise it issues a
\* credential for an external-provider account with email E, which it creates
\* only if no account has E and reuses otherwise; after any sequence of
\* registrations and third-party logins at most one user has any given email.
C10_ThirdPartyLogin ==
    [][/\ (resp'.op \in {"login_with_google_token", "oauth_redirect"}
             /\ resp'.req.email # None) =>
            LET E == resp'.req.email[1]
                stored_user == get_user(users, E)
            IN  /\ (stored_user # None /\ ~stored_user[1].external_provider) =>
                      /\ resp'.res = EMAIL_USED
                      /\ users' = users
                /\ (stored_user # None /\ stored_user[1].external_provider) =>
                      /\ resp'.res = Ok(Token(E))
                      /\ users' = users
                /\ stored_user = None =>
                      /\ resp'.res = Ok(Token(E))
                      /\ users' = Append(users, ExternalUser(Len(users) + 1, E))
       /\ UniqueEmails(users')]_vars

\* A third-party login answered with a token for an external account, while
\* a local account of another email is stored.
C10_Witness ==
    /\ resp.op \in {"login_with_google_token", "oauth_redirect"}
    /\ resp.req.email # None
    /\ resp.res = Ok(Token(resp.req.email[1]))
    /\ get_user(users, resp.req.email[1]) # None
    /\ get_user(users, resp.req.email[1])[1].external_provider
    /\ \E i \in DOMAIN users : ~users[i].external_provider

\* A third-party login refused because a local account owns the email.
C10_WitnessRefused ==
    /\ resp.op \in {"login_with_google_token", "oauth_redirect"}
    /\ resp.req.email # None
    /\ resp.res = EMAIL_USED
    /\ IsLocalAccount(get_user(users, resp.req.email[1]))

-----------------------------------------------------------------------------
(* Properties of the reads of a location that does not exist *)

\* C11: reading a single location by an id that no location has is answered
\* with LOCATION_NOT_FOUND (404 and a message body), never with an internal
\* error.
C11_MissingLocationNotFound ==
    (resp.op = "read_location_by_id" /\ get_location(resp.req.location_id) = None)
        => resp.res = LOCATION_NOT_FOUND

-----------------------------------------------------------------------------
(* The identity-gated reads: GET /api/bookings and GET /me *)

\* GET /api/bookings: the bookings whose user_id is the id of the token's user.
read_user_bookings(token) ==
    /\ LET req == [token |-> token]
           user == get_user(users, token[1])
       IN  resp' = [op |-> "read_user_bookings", req |-> req,
                    res |-> IF token = None
                            THEN INVALID_CREDENTIALS
                            ELSE Ok({bookings[i] : i \in
                                       {j \in DOMAIN bookings :
                                            bookings[j].user_id = Some(user[1].id)}})]
    /\ UNCHANGED <<users, bookings, next_booking_id, feedback, hist, registered,
                   inc_pc, inc_local,
                   clock, date_day_default>>

\* auth.get_current_user: the user of the token, or the INVALID_CREDENTIALS
\* response object, which it returns instead of raising.
get_current_user(token, us) ==
    IF token = None \/ get_user(us, token[1]) = None
    THEN [user |-> None, response |-> Some(INVALID_CREDENTIALS)]
    ELSE [user |-> get_user(us, token[1]), response |-> None]

\* GET /me: read_users_me returns what auth.get_current_active_user returns.
\* On the response object of get_current_user the attribute is_active does
\* not exist.
read_users_me(token) ==
    /\ LET req == [token |-> token]
           current_user == get_current_user(token, users)
       IN  resp' = [op |-> "read_users_me", req |-> req,
                    res |-> IF current_user.user = None
                            THEN InternalServerError("AttributeError")
                            ELSE IF ~current_user.user[1].is_active
                            THEN INACTIVE_USER
                            ELSE Ok(current_user.user[1])]
    /\ UNCHANGED <<users, bookings, next_booking_id, feedback, hist, registered,
                   inc_pc, inc_local,
                   clock, date_day_default>>

\* A users row whose column is_active has been set to False.
Deactivated(user) == [user EXCEPT !.is_active = FALSE]

\* Ann is active; Bob created booking 1 and his account was then deactivated.
InitInactive ==
    /\ users = <<LocalUser(1, "ann@x.org", "pw1"),
                 Deactivated(LocalUser(2, "bob@x.org", "pw2"))>>
    /\ bookings = (1 :> NewBooking(1, CHOOSE s \in Schedules : s.date = 1, 1, 2))
    /\ next_booking_id = 2
    /\ feedback = {}
    /\ hist = {}
    /\ resp = NoResp
    /\ registered = {}
    /\ inc_pc = [w \in Workers |-> "idle"]
    /\ inc_local = [w \in Workers |-> None]
    /\ clock = 0
    /\ date_day_default = 0

NextInactive ==
    \/ \E token \in Tokens(users), sched \in Schedules,
          location_id \in CreateLocationInputs :
           create_booking(token, sched, location_id)
    \/ \E token \in Tokens(users), booking_id \in BookingIds,
          form \in UpdateForms, collected_weight \in WeightInputs :
           update_booking(token, booking_id, form, collected_weight)
    \/ \E token \in Tokens(users), booking_id \in BookingIds :
           db_delete_booking(token, booking_id)
    \/ \E token \in Tokens(users) : read_user_bookings(token)
    \/ \E token \in Tokens(users) : read_users_me(token)

SpecInactive == InitInactive /\ [][NextInactive]_vars

\* The identity-gated operations.
IdentityGated ==
    {"read_user_bookings", "create_booking", "update_booking",
     "db_delete_booking", "read_users_me"}

\* The request r carries a valid credential of an account that is not active.
ByInactiveAccount(r) ==
    /\ r.op \in IdentityGated
    /\ r.req.token # None
    /\ get_user(users, r.req.token[1]) # None
    /\ ~get_user(users, r.req.token[1])[1].is_active

\* C12: an identity-gated request with a valid credential of an account whose
\* active flag is false is answered INACTIVE_USER (400) and leaves the stored
\* data as it was.
C12_InactiveRejected ==
    [][ByInactiveAccount(resp')
           => /\ resp'.res = INACTIVE_USER
              /\ UNCHANGED <<users, bookings, next_booking_id, feedback>>]_vars

-----------------------------------------------------------------------------
(* Feedback submission and attendance, one request at a time *)

\* Feedback rows and attendance marks the model lets the handlers store.
MaxFeedback == 1

MaxAttendance == 1

\* Request bodies of POST /api/bookings/{booking_id}/feedback: a title, and
\* possibly keys location_id and booking_id that FeedbackCreate does not have.
FeedbackPayloads ==
    {[title |-> "litter", location_id |-> None, booking_id |-> None],
     [title |-> "litter", location_id |-> Some(1), booking_id |-> Some(3)]}

\* schemas.FeedbackCreate: validation keeps the declared fields of the body
\* and ignores the other keys.
FeedbackCreate(payload) == [title |-> payload.title]

\* POST /api/bookings/{booking_id}/feedback.  Feedback rows are never deleted,
\* so the id sequence of the table stands at their number plus one.
create_feedback(booking_id, payload) ==
    /\ Cardinality(feedback) < MaxFeedback
    /\ LET req == [booking_id |-> booking_id, payload |-> payload]
           booking == get_booking(bookings, booking_id)
           row == NewFeedback(Cardinality(feedback) + 1,
                              FeedbackCreate(payload).title, clock, booking[1])
       IN  IF booking = None
           THEN /\ resp' = [op |-> "create_feedback", req |-> req,
                            res |-> BOOKING_NOT_FOUND]
                /\ UNCHANGED feedback
           ELSE /\ feedback' = feedback \cup {row}
                /\ resp' = [op |-> "create_feedback", req |-> req, res |-> Ok(row)]
    /\ UNCHANGED <<users, bookings, next_booking_id, hist, registered,
                   inc_pc, inc_local, clock, date_day_default>>

\* PUT /api/bookings/{booking_id}/attendance, run without another request in
\* between its read and its commit.
increment_attendance(booking_id) ==
    /\ LET req == [booking_id |-> booking_id]
           booking == get_booking(bookings, booking_id)
       IN  IF booking = None
           THEN /\ resp' = [op |-> "increment_attendance", req |-> req,
                            res |-> BOOKING_NOT_FOUND]
                /\ UNCHANGED bookings
           ELSE /\ booking[1].attendance < MaxAttendance
                /\ bookings' = [bookings EXCEPT ![booking_id].attendance = @ + 1]
                /\ resp' = [op |-> "increment_attendance", req |-> req,
                            res |-> Ok(bookings'[booking_id])]
    /\ UNCHANGED <<users, next_booking_id, feedback, hist, registered,
                   inc_pc, inc_local, clock, date_day_default>>

\* Bearer tokens that verify: one per stored user.
ValidTokens(us) == Tokens(us) \ {None}

\* The BookingCreate and BookingUpdate bodies of the requests below.
FirstSchedule == CHOOSE sched \in Schedules : sched.date = 1

CompletedForm == CHOOSE form \in UpdateForms : form.status = "completed"

\* Two registered users; user 2 has created booking 1, at location 2.
InitLifecycle ==
    /\ users = TwoUsers
    /\ bookings = (1 :> NewBooking(1, FirstSchedule, 2, 2))
    /\ next_booking_id = 2
    /\ feedback = {}
    /\ hist = {}
    /\ resp = NoResp
    /\ registered = {}
    /\ inc_pc = [w \in Workers |-> "idle"]
    /\ inc_local = [w \in Workers |-> None]
    /\ clock = 0
    /\ date_day_default = 0

\* The booking ids the requests below name: the stored ones and one that is
\* not stored.
RequestedIds(bs) == DOMAIN bs \cup {next_booking_id}

\* Every booking handler, called with valid tokens.
NextLifecycle ==
    \/ \E token \in ValidTokens(users), location_id \in CreateLocationInputs :
           create_booking(token, FirstSchedule, location_id)
    \/ \E token \in ValidTokens(users), booking_id \in RequestedIds(bookings) :
           update_booking(token, booking_id, CompletedForm, Some(5))
    \/ \E token \in ValidTokens(users), booking_id \in RequestedIds(bookings) :
           db_delete_booking(token, booking_id)
    \/ \E booking_id \in RequestedIds(bookings), payload \in FeedbackPayloads :
           create_feedback(booking_id, payload)
    \/ \E booking_id \in RequestedIds(bookings) : increment_attendance(booking_id)
    \/ \E token \in ValidTokens(users) : read_user_bookings(token)

SpecLifecycle == InitLifecycle /\ [][NextLifecycle]_vars

-----------------------------------------------------------------------------
(* Requests without date_day.  The default in "date_day: dt.date =           *)
(* dt.date.today()" is evaluated when the def statement runs, at the import  *)
(* of the routes, and bound to every later request that has no date_day.     *)

\* dt.date.today(): the day of the wall clock.
date_today == clock \div TicksPerDay

RECURSIVE DaysBefore(_)
\* Days of the year before the first day of a month.
DaysBefore(month) ==
    IF month = 1 THEN 0 ELSE DaysBefore(month - 1) + month_days[month - 1]

\* The day number of a calendar date; 1 January is day 0.
DayOfYear(date) == DaysBefore(date.month) + date.day - 1

\* The calendar date (month, day) of a day number.
CalendarDate(n) ==
    CHOOSE date \in QueryDates :
        date.day <= month_days[date.month] /\ DayOfYear(date) = n

\* Days the process is followed after the day of its start.
MaxDaysUp == 2

\* The dates the process may be started on.
ImportDates == {[month |-> 2, day |-> 27]}

\* The clock moves on.
tick ==
    /\ clock + 1 < ToDatetime(date_day_default + MaxDaysUp + 1)
    /\ clock' = clock + 1
    /\ UNCHANGED <<users, bookings, next_booking_id, feedback, hist, resp,
                   registered, inc_pc, inc_local, date_day_default>>

\* The process has just imported its routes: the defaults hold the day of the
\* start.  Two bookings, no feedback yet, a sample for every month.
InitClock ==
    /\ users = TwoUsers
    /\ bookings = BookingAtEachLocation
    /\ next_booking_id = Cardinality(LocationIds) + 1
    /\ feedback = {}
    /\ hist \in {h \in HistTables : \A m \in 1..12 : HistRows(h, 1, m) # {}}
    /\ resp = NoResp
    /\ registered = {}
    /\ inc_pc = [w \in Workers |-> "idle"]
    /\ inc_local = [w \in Workers |-> None]
    /\ \E date \in ImportDates :
          /\ clock = ToDatetime(DayOfYear(date))
          /\ date_day_default = DayOfYear(date)

\* Every read below is a request without date_day.
NextClock ==
    \/ tick
    \/ read_locations(CalendarDate(date_day_default))
    \/ \E location_id \in LocationIdInputs :
           read_location_by_id(location_id, CalendarDate(date_day_default))
    \/ \E location_id \in LocationIdInputs :
           read_feedback(location_id, date_day_default)
    \/ \E booking_id \in BookingIds, payload \in FeedbackPayloads :
           create_feedback(booking_id, payload)

SpecClock == InitClock /\ [][NextClock]_vars

\* C13: a location listing, location detail or feedback listing requested
\* without date_day is answered for the calendar date current when the
\* request is handled, on the day the process started and on every later day.
C13_DefaultDateIsToday ==
    [][/\ resp'.op = "read_locations" =>
              resp'.res =
                  Ok([loc \in LocationIds |->
                         [id |-> loc,
                          cleanliness_score |->
                              get_cleanliness_score(loc, hist,
                                                    CalendarDate(date_today))]])
       /\ (resp'.op = "read_location_by_id"
              /\ get_location(resp'.req.location_id) # None) =>
              resp'.res =
                  Ok([id |-> resp'.req.location_id,
                      cleanliness_score |->
                          get_cleanliness_score(resp'.req.location_id, hist,
                                                CalendarDate(date_today))])
       /\ resp'.op = "read_feedback" =>
              resp'.res =
                  Ok(feedback_query(feedback, resp'.req.location_id, date_today))
      ]_vars

-----------------------------------------------------------------------------
(* Properties of the attendance counter *)

\* The step completes the increment_attendance call of w on booking b.
CompletesIncrement(w, b) ==
    /\ inc_pc[w] = "dirty"
    /\ inc_pc'[w] = "done"
    /\ inc_local[w][1].booking_id = b

\* C14: the attendance of an existing booking never decreases and changes only
\* through increment-attendance; each successful increment raises it by
\* exactly 1, and an increment for a booking id that does not exist fails
\* with BOOKING_NOT_FOUND and changes nothing.
C14_AttendanceGrowsByOne ==
    [][/\ \A b \in DOMAIN bookings \cap DOMAIN bookings' :
             /\ bookings'[b].attendance >= bookings[b].attendance
             /\ bookings'[b].attendance # bookings[b].attendance
                    => \E w \in Workers : CompletesIncrement(w, b)
             /\ \A w \in Workers :
                    CompletesIncrement(w, b)
                        => bookings'[b].attendance = bookings[b].attendance + 1
       /\ \A w \in Workers :
             (inc_pc[w] = "idle" /\ inc_pc'[w] = "done")
                 => resp'.res = BOOKING_NOT_FOUND /\ UNCHANGED bookings
      ]_vars

\* The same for requests handled one at a time, where it holds: an increment
\* that finds the booking adds exactly 1 to its attendance and to nothing
\* else, one that does not find it answers BOOKING_NOT_FOUND and changes
\* nothing, and no other handler changes the attendance of a stored booking.
C14_OneAtATime ==
    [][/\ \A b \in DOMAIN bookings \cap DOMAIN bookings' :
             bookings'[b].attendance =
                 IF resp'.op = "increment_attendance" /\ resp'.req.booking_id = b
                 THEN bookings[b].attendance + 1
                 ELSE bookings[b].attendance
       /\ (resp'.op = "increment_attendance"
              /\ resp'.req.booking_id \notin DOMAIN bookings)
             => /\ resp'.res = BOOKING_NOT_FOUND
                /\ UNCHANGED <<users, bookings, next_booking_id, feedback>>
      ]_vars

\* An update of a booking that has been marked attended, and a second mark.
C14_OneAtATimeWitness ==
    /\ resp.op = "update_booking"
    /\ resp.res.status_code = 200
    /\ resp.res.body.attendance > 0

-----------------------------------------------------------------------------
(* Properties of feedback submission *)

\* C15: a feedback submission for a booking id that does not exist answers
\* BOOKING_NOT_FOUND and stores nothing; for an existing booking it stores
\* exactly one new feedback row, whose booking id is that booking and whose
\* location id is the booking's, whatever the request body says.
C15_FeedbackFollowsBooking ==
    [][resp'.op = "create_feedback" =>
          IF resp'.req.booking_id \notin DOMAIN bookings
          THEN /\ resp'.res = BOOKING_NOT_FOUND
               /\ UNCHANGED <<feedback, bookings>>
          ELSE /\ feedback \subseteq feedback'
               /\ Cardinality(feedback' \ feedback) = 1
               /\ \A f \in feedback' \ feedback :
                     /\ f.booking_id = resp'.req.booking_id
                     /\ f.location_id = bookings[resp'.req.booking_id].location_id
                     /\ resp'.res = Ok(f)
               /\ UNCHANGED bookings
      ]_vars

\* Feedback stored for a booking at another location than the one the request
\* body names, under another booking id than the body names.
C15_Witness ==
    /\ resp.op = "create_feedback"
    /\ resp.res.status_code = 200
    /\ resp.res.body \in feedback
    /\ resp.req.payload.location_id # None
    /\ resp.req.payload.location_id # Some(resp.res.body.location_id)
    /\ resp.req.payload.booking_id # Some(resp.res.body.booking_id)

\* A submission refused for a booking id that is not stored.
C15_WitnessNotFound ==
    /\ resp.op = "create_feedback"
    /\ resp.res = BOOKING_NOT_FOUND

-----------------------------------------------------------------------------
(* Properties of booking creation and of the own-bookings listing *)

\* C16: a booking created through create_booking against an existing location
\* is owned by the requester, not external, with attendance 0 and status
\* "scheduled"; while it is stored its owner stays the same, and the
\* own-bookings listing of an identity is exactly the stored bookings it owns:
\* the booking is in its creator's listing and in no other identity's.
C16_CreatedBookingIsOwn ==
    [][/\ (resp'.op = "create_booking" /\ resp'.res.status_code = 200) =>
             /\ get_location(resp'.req.location_id) # None
             /\ resp'.res.body.id \notin DOMAIN bookings
             /\ bookings' = bookings @@ (resp'.res.body.id :> resp'.res.body)
             /\ resp'.res.body.user_id = Some(Caller(resp').id)
             /\ resp'.res.body.external = FALSE
             /\ resp'.res.body.attendance = 0
             /\ resp'.res.body.status = "scheduled"
             /\ resp'.res.body.location_id = resp'.req.location_id
       /\ \A b \in DOMAIN bookings \cap DOMAIN bookings' :
             /\ bookings'[b].user_id = bookings[b].user_id
             /\ bookings'[b].external = bookings[b].external
       /\ resp'.op = "read_user_bookings" =>
             /\ resp'.res.status_code = 200
             /\ resp'.res.body =
                    {bookings[b] : b \in
                        {i \in DOMAIN bookings :
                             bookings[i].user_id = Some(Caller(resp').id)}}
             /\ UNCHANGED bookings
      ]_vars

\* An own-bookings listing that holds a booking the caller created, while a
\* booking of another identity is stored and is not in the listing.
C16_Witness ==
    /\ resp.op = "read_user_bookings"
    /\ \E b \in resp.res.body : b.user_id = Some(Caller(resp).id) /\ ~b.external
    /\ \E i \in DOMAIN bookings :
          /\ bookings[i].user_id # None
          /\ bookings[i].user_id # Some(Caller(resp).id)
          /\ bookings[i] \notin resp.res.body

-----------------------------------------------------------------------------
(* Properties of the feedback table *)

\* C17: in every state reached by booking create, update and delete, feedback
\* submission and attendance increment, every stored feedback row refers to a
\* stored booking and its location id is that booking's; after a delete
\* request for a booking that has feedback, the feedback is gone or the
\* booking is still stored.
C17_FeedbackRefersToBooking ==
    /\ \A f \in feedback :
          /\ f.booking_id \in DOMAIN bookings
          /\ f.location_id = bookings[f.booking_id].location_id
    /\ resp.op = "db_delete_booking" =>
          \/ \A f \in feedback : f.booking_id # resp.req.booking_id
          \/ resp.req.booking_id \in DOMAIN bookings

\* The owner's delete of a booking that has feedback: the booking is still
\* stored, with its feedback.
C17_Witness ==
    /\ resp.op = "db_delete_booking"
    /\ resp.req.booking_id \in DOMAIN bookings
    /\ Owns(bookings[resp.req.booking_id], Caller(resp))
    /\ \E f \in feedback : f.booking_id = resp.req.booking_id

\* Feedback of a booking whose owner has since updated it.
C17_WitnessUpdated ==
    /\ resp.op = "update_booking"
    /\ resp.res.status_code = 200
    /\ \E f \in feedback : f.booking_id = resp.req.booking_id

====
